---------------------------- MODULE Spec2Model ----------------------------
(***************************************************************************)
(* benchrun: the BenchmarkRunner state machine (benchrun/runner.py), the   *)
(* Result Record and the Comparator it uses (benchrun/results.py,          *)
(* benchrun/comparison.py), and the two variants of the sampler            *)
(* benchmark() (src/benchrun/core.py and benchrun/benchmark.py).           *)
(*                                                                         *)
(* Strings built by f"{a}_{n}" are modelled as token sequences: the name   *)
(* "impl" is <<"impl">>, "impl_1" is <<"impl", 1>>, "impl_1_1" is          *)
(* <<"impl", 1, 1>>, so that formatting a suffix is Append and two ways of *)
(* building the same string give the same value.                           *)
(* Durations are integer clock ticks; a mean or a median is the exact      *)
(* fraction [num, den].                                                    *)
(*                                                                         *)
(* The functions of results.py, comparison.py and display.py are also      *)
(* applied on their own, each to arguments drawn by the initial state      *)
(* (SpecResults, SpecCompare, SpecDisplay).                                *)
(***************************************************************************)
EXTENDS Integers, Sequences, FiniteSets, TLC

\* ------------------------------------------------------------------ bounds
\* registrations, timed runs and warmup runs of a runner
MaxImpls == 2
MaxRuns == 1
MaxWarmup == 1
\* registrations when only add_implementation and clear are called
MaxNames == 3
\* the largest runs and warmup arguments given to benchmark()
MaxCount == 2

\* time.perf_counter() differences the clock can produce, in ticks
Durations == {0, 1}

\* ------------------------------------------------------------------ values
\* name=None of add_implementation (the empty string is not among the inputs)
NoName == <<>>
ImplName == <<"impl">>
Lambda == "<lambda>"

\* the callables handed to the runner: two lambdas (one raises when invoked)
\* and a def-function whose __name__ is "impl"
FLambda == [id |-> "f_lambda", fname |-> Lambda, raises |-> FALSE]
FRaises == [id |-> "f_raises", fname |-> Lambda, raises |-> TRUE]
FNamed == [id |-> "f_named", fname |-> "impl", raises |-> FALSE]
Funcs == {FLambda, FRaises, FNamed}
Names == {NoName, ImplName}
SortKeys == {"mean", "median", "min", "max"}

\* Optional[Dict]: None, or the dict as the sequence of its items in
\* insertion order
NoneResults == [isNone |-> TRUE, items |-> <<>>]
Dict(items) == [isNone |-> FALSE, items |-> items]
\* Optional[float]
Unset == [set |-> FALSE, num |-> 0, den |-> 1]
Frac(n, d) == [set |-> TRUE, num |-> n, den |-> d]

NoError == "none"
NoFunc == [id |-> "none", fname |-> "none", raises |-> FALSE]
NoArg == [func |-> NoFunc, name |-> NoName, original |-> NoName]

\* a library function before it is applied to args, after it returned out,
\* and after it raised error; args holds the arguments as the call left them
Pending(args) == [fn |-> "none", args |-> args, error |-> NoError, out |-> <<>>]
Returned(fn, args, out) == [fn |-> fn, args |-> args, error |-> NoError, out |-> out]
Raised(fn, args, error) == [fn |-> fn, args |-> args, error |-> error, out |-> <<>>]
LibIdle == Pending(<<>>)

VARIABLES
    runs, warmup,      \* BenchmarkRunner.runs / .warmup
    implementations,   \* BenchmarkRunner.implementations, in insertion order
    results,           \* BenchmarkRunner.results
    impl_counter,      \* BenchmarkRunner._impl_counter
    op, arg, error,    \* the last call: its name, its arguments, the error it raised
    entered,           \* the state of the runner (Empty, Configured, Executed) the last call was made in
    calls,             \* what the last call invoked, in order
    ran,               \* run() was called since construction or the last clear()
    sampler,           \* the last call of the standalone benchmark()
    lib                \* a call of a function of results.py, comparison.py or
                       \* display.py: its arguments, then also its outcome

runner == <<runs, warmup, implementations, results, impl_counter>>
observed == <<op, arg, error, entered, calls, ran>>
vars == <<runner, observed, sampler, lib>>

\* ------------------------------------------------------------ dict helpers
Keys(items) == {items[i].name : i \in 1..Len(items)}

IndexOf(items, name) == CHOOSE i \in 1..Len(items) : items[i].name = name

\* d[key] = entry: an existing key keeps its position and gets the new
\* value, a new key is appended
DictSet(items, entry) ==
    IF entry.name \in Keys(items)
    THEN [items EXCEPT ![IndexOf(items, entry.name)] = entry]
    ELSE Append(items, entry)


\* ------------------------------------------------------- name resolution
\* the while loop of add_implementation from a given counter on
RECURSIVE NextFree(_, _, _)
NextFree(original_name, counter, keys) ==
    IF Append(original_name, counter) \in keys
    THEN NextFree(original_name, counter + 1, keys)
    ELSE Append(original_name, counter)

\* the name is stored without looking for a collision
UniquifyNoCheck(name, keys) == name

\* "Ensure unique names": the name, or the first name_1, name_2, ... not in keys
Uniquify(name, keys) ==
    IF name \in keys THEN NextFree(name, 1, keys) ELSE name

\* the name add_implementation starts from: the argument, else the
\* function's __name__, else impl_<counter> with the counter just incremented
OriginalName(func, name, counter) ==
    IF name # NoName THEN name
    ELSE IF func.fname # Lambda THEN <<func.fname>>
    ELSE <<"impl", counter + 1>>

\* the counter of synthesized names is never incremented
CounterAfterStuck(func, name, counter) == counter

CounterAfter(func, name, counter) ==
    IF name = NoName /\ func.fname = Lambda THEN counter + 1 ELSE counter

\* ------------------------------------------------------------ statistics
RECURSIVE SumSeq(_)
SumSeq(s) == IF s = <<>> THEN 0 ELSE Head(s) + SumSeq(Tail(s))

MinSeq(s) == CHOOSE x \in {s[i] : i \in 1..Len(s)} : \A j \in 1..Len(s) : x <= s[j]

\* the last sample is taken as the largest
MaxSeqIsLast(s) == s[Len(s)]

MaxSeq(s) == CHOOSE x \in {s[i] : i \in 1..Len(s)} : \A j \in 1..Len(s) : x >= s[j]

\* sorted(): ascending, by insertion
InsertSorted(s, x) ==
    LET n == Cardinality({i \in 1..Len(s) : s[i] <= x})
    IN  SubSeq(s, 1, n) \o <<x>> \o SubSeq(s, n + 1, Len(s))

RECURSIVE Sorted(_)
Sorted(s) ==
    IF s = <<>> THEN <<>>
    ELSE InsertSorted(Sorted(SubSeq(s, 1, Len(s) - 1)), s[Len(s)])

\* statistics.mean and statistics.median, as exact fractions
Mean(d) == [num |-> SumSeq(d), den |-> Len(d)]

Median(d) ==
    LET s == Sorted(d)
        n == Len(d)
    IN  IF n % 2 = 1
        THEN [num |-> s[(n + 1) \div 2], den |-> 1]
        ELSE [num |-> s[n \div 2] + s[n \div 2 + 1], den |-> 2]

Less(a, b) == a.num * b.den < b.num * a.den

RECURSIVE SumSquares(_)
SumSquares(s) == IF s = <<>> THEN 0 ELSE Head(s) * Head(s) + SumSquares(Tail(s))

\* "statistics.stdev(durations) if len(durations) > 1 else 0.0", squared: the
\* sample variance sum((x - mean)^2) / (n - 1) as an exact fraction; the
\* standard deviation is its square root, 0 exactly when this is 0
StdevSquared(d) ==
    IF Len(d) > 1
    THEN LET total == SumSeq(d)
         IN  [num |-> Len(d) * SumSquares(d) - total * total,
              den |-> Len(d) * (Len(d) - 1)]
    ELSE [num |-> 0, den |-> 1]

\* the element at floor(k) is returned, without interpolation
PercentileNoInterpolation(sorted_data, percentile) ==
    IF sorted_data = <<>> THEN [num |-> 0, den |-> 1]
    ELSE [num |-> sorted_data[((Len(sorted_data) - 1) * percentile) \div 100 + 1],
          den |-> 1]

\* BenchmarkResults._percentile for a whole percentile, as an exact fraction:
\* k = k100 / 100, f = int(k), and k - f = (k100 - 100 f) / 100; the
\* 0-based sorted_data[f] of the code is sorted_data[f + 1] here
Percentile(sorted_data, percentile) ==
    IF sorted_data = <<>> THEN [num |-> 0, den |-> 1]
    ELSE LET k100 == (Len(sorted_data) - 1) * percentile
             f == k100 \div 100
             c == f + 1
         IN  IF c >= Len(sorted_data)
             THEN [num |-> sorted_data[Len(sorted_data)], den |-> 1]
             ELSE LET d0 == sorted_data[f + 1]
                      d1 == sorted_data[c + 1]
                  IN  [num |-> 100 * d0 + (d1 - d0) * (k100 - 100 * f),
                       den |-> 100]

\* the Result Record built by BenchmarkResults(name, durations, runs, warmup)
\* for a non-empty list of durations; std_dev holds the square of the
\* standard deviation
BenchmarkResults(name, d, r, w) ==
    LET sorted_durations == Sorted(d)
    IN  [name |-> name, durations |-> d, runs |-> r, warmup |-> w,
         mean |-> Mean(d), median |-> Median(d), std_dev |-> StdevSquared(d),
         min_time |-> MinSeq(d), max_time |-> MaxSeq(d),
         percentile_95 |-> Percentile(sorted_durations, 95),
         percentile_99 |-> Percentile(sorted_durations, 99),
         speedup |-> Unset, relative_performance |-> Unset]

\* "durations list cannot be empty"
EmptyDurations == "ValueError: durations list cannot be empty"

\* an empty list gives a record of zeros instead of an error
PostInitAcceptsEmpty(name, d, r, w) ==
    IF d = <<>>
    THEN [error |-> NoError, built |-> TRUE,
          record |-> [BenchmarkResults(name, <<0>>, r, w) EXCEPT !.durations = <<>>]]
    ELSE [error |-> NoError, built |-> TRUE, record |-> BenchmarkResults(name, d, r, w)]

\* the dataclass constructor with __post_init__: the error raised, else the
\* Result Record
PostInit(name, d, r, w) ==
    IF d = <<>>
    THEN [error |-> EmptyDurations, built |-> FALSE, record |-> <<>>]
    ELSE [error |-> NoError, built |-> TRUE, record |-> BenchmarkResults(name, d, r, w)]

\* ------------------------------------------------------------- comparator
\* the last entry is taken as the fastest
FastestIndexLast(items) == Len(items)

\* min(results.keys(), key=...): the first entry with the least mean
FastestIndex(items) ==
    CHOOSE i \in 1..Len(items) :
        /\ \A j \in 1..Len(items) : ~Less(items[j].mean, items[i].mean)
        /\ \A j \in 1..(i - 1) : Less(items[i].mean, items[j].mean)

\* the else branch for a zero mean is left out
AnnotatedSkipsZero(rec, fastest_time) ==
    IF rec.mean.num > 0
    THEN [rec EXCEPT
            !.speedup = Frac(fastest_time.num * rec.mean.den,
                             fastest_time.den * rec.mean.num),
            !.relative_performance = Frac(fastest_time.num * rec.mean.den * 100,
                                          fastest_time.den * rec.mean.num)]
    ELSE rec

Annotated(rec, fastest_time) ==
    IF rec.mean.num > 0
    THEN [rec EXCEPT
            !.speedup = Frac(fastest_time.num * rec.mean.den,
                             fastest_time.den * rec.mean.num),
            !.relative_performance = Frac(fastest_time.num * rec.mean.den * 100,
                                          fastest_time.den * rec.mean.num)]
    ELSE [rec EXCEPT !.speedup = Frac(1, 1),
                     !.relative_performance = Frac(100, 1)]

\* the entries are written back fastest-last
CalculateComparisonsReorders(items) ==
    IF items = <<>> THEN items
    ELSE LET fastest_time == items[FastestIndex(items)].mean
         IN  [i \in 1..Len(items) |->
                Annotated(items[Len(items) + 1 - i], fastest_time)]

calculate_comparisons(items) ==
    IF items = <<>> THEN items
    ELSE LET fastest_time == items[FastestIndex(items)].mean
         IN  [i \in 1..Len(items) |-> Annotated(items[i], fastest_time)]

\* --------------------------------------------------------------- display
\* getattr(results[k], sort_by) after "min"/"max" are normalised
Metric(rec, sort_by) ==
    CASE sort_by = "mean" -> rec.mean
      [] sort_by = "median" -> rec.median
      [] sort_by = "min" -> [num |-> rec.min_time, den |-> 1]
      [] sort_by = "max" -> [num |-> rec.max_time, den |-> 1]

\* sorted(results.keys(), key=...): stable, ascending; works on the items
InsertByMetric(s, rec, sort_by) ==
    LET n == Cardinality({i \in 1..Len(s) :
                 ~Less(Metric(rec, sort_by), Metric(s[i], sort_by))})
    IN  SubSeq(s, 1, n) \o <<rec>> \o SubSeq(s, n + 1, Len(s))

RECURSIVE SortedItems(_, _)
SortedItems(items, sort_by) ==
    IF items = <<>> THEN <<>>
    ELSE InsertByMetric(SortedItems(SubSeq(items, 1, Len(items) - 1), sort_by),
                        items[Len(items)], sort_by)

Line(kind, name, star, speedup) ==
    [kind |-> kind, name |-> name, star |-> star, speedup |-> speedup]

\* f"{result.speedup:.2f}x" if result.speedup else "N/A"
SpeedupShown(rec) ==
    IF rec.speedup.set /\ rec.speedup.num # 0 THEN rec.speedup ELSE Unset

\* "  Fastest: {name} ({format_time(mean)})" and the same for Slowest: the
\* name and the mean that is shown
Summary(kind, rec) ==
    [kind |-> kind, name |-> rec.name, star |-> FALSE, speedup |-> Unset,
     time |-> rec.mean]

\* every row that ties with the first on the sort key gets the marker
TableLinesStarsTies(items, sort_by) ==
    LET s == SortedItems(items, sort_by)
    IN  [i \in 1..Len(s) |->
            Line("row", s[i].name,
                 ~Less(Metric(s[1], sort_by), Metric(s[i], sort_by)),
                 SpeedupShown(s[i]))]
        \o <<Summary("fastest", s[1]), Summary("slowest", s[Len(s)])>>

\* the table rows and the first two lines of the summary
TableLines(items, sort_by) ==
    LET s == SortedItems(items, sort_by)
    IN  [i \in 1..Len(s) |-> Line("row", s[i].name, i = 1, SpeedupShown(s[i]))]
        \o <<Summary("fastest", s[1]), Summary("slowest", s[Len(s)])>>

\* slowest_result.mean / fastest_result.mean divides by zero
RatioFails(items, sort_by) ==
    LET s == SortedItems(items, sort_by)
    IN  Len(items) > 1 /\ s[1].mean.num = 0

\* the ratio is taken as fastest over slowest
DifferenceLineInverted(items, sort_by) ==
    LET s == SortedItems(items, sort_by)
    IN  Line("difference", s[Len(s)].name, FALSE,
             Frac(s[1].mean.num * s[Len(s)].mean.den,
                  s[1].mean.den * s[Len(s)].mean.num))

\* "  Difference: {ratio:.2f}x" with ratio = slowest mean / fastest mean
DifferenceLine(items, sort_by) ==
    LET s == SortedItems(items, sort_by)
    IN  Line("difference", s[Len(s)].name, FALSE,
             Frac(s[Len(s)].mean.num * s[1].mean.den,
                  s[Len(s)].mean.den * s[1].mean.num))

NoResultsLine == Line("message", <<"No results to display.">>, FALSE, Unset)

\* ------------------------------------------------------------------ init
\* the states of the runner: results are there (Executed), else
\* implementations are registered (Configured), else Empty
Lifecycle ==
    IF ~results.isNone THEN "Executed"
    ELSE IF implementations # <<>> THEN "Configured"
    ELSE "Empty"

SamplerIdle ==
    [variant |-> "none", func |-> [callable |-> TRUE, raises |-> FALSE],
     runs |-> [kind |-> "int", val |-> 0], warmup |-> [kind |-> "int", val |-> 0],
     error |-> NoError, invoked |-> <<>>, clock |-> <<>>, returned |-> FALSE,
     durations |-> <<>>]

\* self.results starts as an empty dict instead of None
RunnerInitEmptyDict ==
    /\ runs \in 0..MaxRuns
    /\ warmup \in 0..MaxWarmup
    /\ implementations = <<>>
    /\ results = Dict(<<>>)
    /\ impl_counter = 0

\* BenchmarkRunner.__init__
RunnerInit ==
    /\ runs \in 0..MaxRuns
    /\ warmup \in 0..MaxWarmup
    /\ implementations = <<>>
    /\ results = NoneResults
    /\ impl_counter = 0

\* a runner just constructed, benchmark() not called
Constructed ==
    /\ RunnerInit
    /\ op = "init" /\ arg = NoArg /\ error = NoError /\ entered = "Empty"
    /\ calls = <<>> /\ ran = FALSE
    /\ sampler = SamplerIdle

Init ==
    /\ Constructed
    /\ lib = LibIdle

\* --------------------------------------------------- add_implementation
\* registering drops the results of the earlier run
AddImplementationDropsResults(func, name) ==
    LET original_name == OriginalName(func, name, impl_counter)
        final == Uniquify(original_name, Keys(implementations))
    IN  /\ impl_counter' = CounterAfter(func, name, impl_counter)
        /\ implementations' =
               DictSet(implementations, [name |-> final, func |-> func])
        /\ op' = "add_implementation"
        /\ entered' = Lifecycle
        /\ arg' = [NoArg EXCEPT !.func = func, !.name = name,
                                !.original = original_name]
        /\ error' = NoError /\ calls' = <<>>
        /\ results' = NoneResults
        /\ UNCHANGED <<runs, warmup, ran, sampler, lib>>

AddImplementation(func, name) ==
    LET original_name == OriginalName(func, name, impl_counter)
        final == Uniquify(original_name, Keys(implementations))
    IN  /\ impl_counter' = CounterAfter(func, name, impl_counter)
        /\ implementations' =
               DictSet(implementations, [name |-> final, func |-> func])
        /\ op' = "add_implementation"
        /\ entered' = Lifecycle
        /\ arg' = [NoArg EXCEPT !.func = func, !.name = name,
                                !.original = original_name]
        /\ error' = NoError /\ calls' = <<>>
        /\ UNCHANGED <<runs, warmup, results, ran, sampler, lib>>

\* --------------------------------------------------------------- run()
Invocations(name, kind, n) == [j \in 1..n |-> [name |-> name, kind |-> kind]]

\* the warmup invocations are timed and recorded too
IterationTimesWarmup(impl, timing) ==
    IF impl.func.raises /\ warmup + runs > 0
    THEN [error |-> "Exception", calls |-> Invocations(impl.name, "timed", 1),
          built |-> FALSE, record |-> impl]
    ELSE LET done == Invocations(impl.name, "warmup", warmup)
                     \o Invocations(impl.name, "timed", runs)
             d == [j \in 1..warmup |-> 0] \o SubSeq(timing, 1, runs)
         IN  IF d = <<>>
             THEN [error |-> "ValueError", calls |-> done,
                   built |-> FALSE, record |-> impl]
             ELSE [error |-> NoError, calls |-> done, built |-> TRUE,
                   record |-> BenchmarkResults(impl.name, d, runs, warmup)]

\* the warmup loop is left out
IterationNoWarmup(impl, timing) ==
    IF impl.func.raises /\ runs > 0
    THEN [error |-> "Exception", calls |-> Invocations(impl.name, "timed", 1),
          built |-> FALSE, record |-> impl]
    ELSE LET done == Invocations(impl.name, "timed", runs)
             d == SubSeq(timing, 1, runs)
         IN  IF d = <<>>
             THEN [error |-> "ValueError", calls |-> done,
                   built |-> FALSE, record |-> impl]
             ELSE [error |-> NoError, calls |-> done, built |-> TRUE,
                   record |-> BenchmarkResults(impl.name, d, runs, warmup)]

\* an implementation whose durations are all zero is skipped with an error
IterationRejectsZero(impl, timing) ==
    IF impl.func.raises /\ (warmup > 0 \/ runs > 0)
    THEN [error |-> "Exception", calls |-> Invocations(impl.name, "timed", 1),
          built |-> FALSE, record |-> impl]
    ELSE LET done == Invocations(impl.name, "warmup", warmup)
                     \o Invocations(impl.name, "timed", runs)
             d == SubSeq(timing, 1, runs)
         IN  IF d = <<>> \/ \A j \in 1..Len(d) : d[j] = 0
             THEN [error |-> "ValueError", calls |-> done,
                   built |-> FALSE, record |-> impl]
             ELSE [error |-> NoError, calls |-> done, built |-> TRUE,
                   record |-> BenchmarkResults(impl.name, d, runs, warmup)]

\* one iteration of the for loop of run(): the warmup loop, the timed loop
\* (timing: the clock differences of its invocations) and the Result Record.
\* An exception raised by func or by BenchmarkResults ends it.
Iteration(impl, timing) ==
    IF impl.func.raises /\ warmup > 0
    THEN [error |-> "Exception", calls |-> Invocations(impl.name, "warmup", 1),
          built |-> FALSE, record |-> impl]
    ELSE IF impl.func.raises /\ runs > 0
    THEN [error |-> "Exception",
          calls |-> Invocations(impl.name, "warmup", warmup)
                    \o Invocations(impl.name, "timed", 1),
          built |-> FALSE, record |-> impl]
    ELSE LET done == Invocations(impl.name, "warmup", warmup)
                     \o Invocations(impl.name, "timed", runs)
             d == SubSeq(timing, 1, runs)
         IN  IF d = <<>>
             THEN [error |-> "ValueError", calls |-> done,
                   built |-> FALSE, record |-> impl]
             ELSE [error |-> NoError, calls |-> done, built |-> TRUE,
                   record |-> BenchmarkResults(impl.name, d, runs, warmup)]

\* the for loop of run() from implementation i on; acc is self.results (items),
\* the invocations so far and the exception that ended the loop
RECURSIVE RunLoop(_, _, _)
RunLoop(i, acc, timings) ==
    IF i > Len(implementations) THEN acc
    ELSE LET it == Iteration(implementations[i], timings[i])
             seen == acc.calls \o it.calls
         IN  IF it.built
             THEN RunLoop(i + 1, [items |-> DictSet(acc.items, it.record),
                                  calls |-> seen, error |-> NoError], timings)
             ELSE [items |-> acc.items, calls |-> seen, error |-> it.error]

CompareCall == [name |-> NoName, kind |-> "compare"]

\* what run() leaves in self.results and how it ends
RunOutcome(timings) ==
    LET loop == RunLoop(1, [items |-> <<>>, calls |-> <<>>, error |-> NoError],
                        timings)
    IN  IF loop.error = NoError
        THEN [loop EXCEPT !.items = calculate_comparisons(loop.items),
                          !.calls = Append(loop.calls, CompareCall)]
        ELSE loop

Timings == [1..Len(implementations) -> [1..runs -> Durations]]

\* "self.results = {}" comes before the check for registrations
RunEmptyResets ==
    /\ implementations = <<>>
    /\ results' = Dict(<<>>)
    /\ op' = "run" /\ arg' = NoArg
    /\ entered' = Lifecycle
    /\ error' = "ValueError"
    /\ ran' = TRUE
    /\ calls' = <<>>
    /\ UNCHANGED <<runs, warmup, implementations, impl_counter, sampler, lib>>

\* "if not self.implementations: raise ValueError"
RunEmpty ==
    /\ implementations = <<>>
    /\ op' = "run" /\ arg' = NoArg
    /\ entered' = Lifecycle
    /\ error' = "ValueError"
    /\ ran' = TRUE
    /\ calls' = <<>>
    /\ UNCHANGED <<runner, sampler, lib>>

Run ==
    /\ implementations # <<>>
    /\ \E o \in {RunOutcome(timings) : timings \in Timings} :
         /\ results' = Dict(o.items)
         /\ calls' = o.calls
         /\ error' = o.error
    /\ op' = "run" /\ arg' = NoArg
    /\ entered' = Lifecycle
    /\ ran' = TRUE
    /\ UNCHANGED <<runs, warmup, implementations, impl_counter, sampler, lib>>

\* ---------------------------------------------------- print_comparison
\* display.print_comparison: what it prints and the error that ends it
PrintOutput(items, sort_by) ==
    IF items = <<>>
    THEN [error |-> NoError, lines |-> <<NoResultsLine>>]
    ELSE IF RatioFails(items, sort_by)
    THEN [error |-> "ZeroDivisionError", lines |-> TableLines(items, sort_by)]
    ELSE IF Len(items) > 1
    THEN [error |-> NoError,
          lines |-> Append(TableLines(items, sort_by),
                           DifferenceLine(items, sort_by))]
    ELSE [error |-> NoError, lines |-> TableLines(items, sort_by)]

\* BenchmarkRunner.print_comparison(sort_by) in the current state: the error
\* that ends it ("No results available. Call run() first." is NotExecuted)
PrintError(sort_by) ==
    IF results.isNone THEN "NotExecuted"
    ELSE PrintOutput(results.items, sort_by).error

PrintComparison(sort_by) ==
    /\ op' = "print_comparison"
    /\ entered' = Lifecycle
    /\ arg' = NoArg
    /\ error' = PrintError(sort_by)
    /\ calls' = <<>>
    /\ UNCHANGED <<runner, ran, sampler, lib>>

\* what print_comparison(sort_by) prints in the current state
Printed(sort_by) ==
    IF results.isNone THEN <<>> ELSE PrintOutput(results.items, sort_by).lines

\* ---------------------------------------------------------- get_results
GetResults ==
    /\ op' = "get_results" /\ arg' = NoArg
    /\ entered' = Lifecycle
    /\ error' = NoError /\ calls' = <<>>
    /\ UNCHANGED <<runner, ran, sampler, lib>>

\* what get_results() returns in the current state
get_results == results

\* ---------------------------------------------------------------- clear
\* the counter of synthesized names survives clear()
ClearKeepsCounter ==
    /\ implementations' = <<>>
    /\ results' = NoneResults
    /\ op' = "clear" /\ arg' = NoArg
    /\ entered' = Lifecycle
    /\ ran' = FALSE
    /\ error' = NoError /\ calls' = <<>>
    /\ UNCHANGED <<runs, warmup, impl_counter, sampler, lib>>

Clear ==
    /\ implementations' = <<>>
    /\ results' = NoneResults
    /\ impl_counter' = 0
    /\ op' = "clear" /\ arg' = NoArg
    /\ entered' = Lifecycle
    /\ ran' = FALSE
    /\ error' = NoError /\ calls' = <<>>
    /\ UNCHANGED <<runs, warmup, sampler, lib>>

Add(limit) ==
    /\ Len(implementations) < limit
    /\ \E func \in Funcs, name \in Names : AddImplementation(func, name)

Next ==
    \/ Add(MaxImpls)
    \/ RunEmpty
    \/ Run
    \/ \E sort_by \in SortKeys : PrintComparison(sort_by)
    \/ GetResults
    \/ Clear

Spec == Init /\ [][Next]_vars

\* ------------------------------------------------- benchmark(), standalone
\* the func arguments: a function, a function that raises, a non-callable
SamplerFuncs ==
    {[callable |-> TRUE, raises |-> FALSE], [callable |-> TRUE, raises |-> TRUE],
     [callable |-> FALSE, raises |-> FALSE]}

\* the runs and warmup arguments: an int val, the float val + 0.5, or a str
Counts ==
    [kind : {"int"}, val : -1..MaxCount]
    \cup [kind : {"float"}, val : {-1, 1}]
    \cup [kind : {"str"}, val : {1}]

\* "c > 0" for an int or a float
Positive(c) == IF c.kind = "int" THEN c.val > 0 ELSE c.val >= 0

Failed(kind, invoked) ==
    [error |-> kind, invoked |-> invoked, clock |-> <<>>, returned |-> FALSE,
     durations |-> <<>>]

Kinds(kind, n) == [j \in 1..n |-> kind]

\* each duration is put at the front of the list instead of appended
TimedLoopPrepends(func, r, warm, timing) ==
    IF r > 0 /\ ~func.callable THEN Failed("TypeError", warm)
    ELSE IF r > 0 /\ func.raises THEN Failed("Exception", Append(warm, "timed"))
    ELSE [error |-> NoError, invoked |-> warm \o Kinds("timed", r),
          clock |-> SubSeq(timing, 1, r), returned |-> TRUE,
          durations |-> [j \in 1..r |-> timing[r + 1 - j]]]

\* "for _ in range(r): ... func() ...", the timed loop, after the invocations
\* in warm; timing[j] is end_time - start_time around the j-th timed call, and
\* clock keeps what was measured, call by call, beside the list returned
TimedLoop(func, r, warm, timing) ==
    IF r > 0 /\ ~func.callable THEN Failed("TypeError", warm)
    ELSE IF r > 0 /\ func.raises THEN Failed("Exception", Append(warm, "timed"))
    ELSE [error |-> NoError, invoked |-> warm \o Kinds("timed", r),
          clock |-> SubSeq(timing, 1, r), returned |-> TRUE,
          durations |-> SubSeq(timing, 1, r)]

\* "for _ in range(w): func()", the warmup loop: the error that ends it and
\* the invocations made
WarmupLoop(func, w) ==
    IF w > 0 /\ ~func.callable THEN Failed("TypeError", <<>>)
    ELSE IF w > 0 /\ func.raises THEN Failed("Exception", <<"warmup">>)
    ELSE Failed(NoError, Kinds("warmup", w))

\* benchmark() of src/benchrun/core.py
CoreOutcome(func, r, w, timing) ==
    IF ~func.callable THEN Failed("TypeError", <<>>)
    ELSE IF r.kind # "int" \/ r.val < 1 THEN Failed("ValueError", <<>>)
    ELSE IF w.kind # "int" \/ w.val < 0 THEN Failed("ValueError", <<>>)
    ELSE LET warm == WarmupLoop(func, w.val)
         IN  IF warm.error # NoError THEN warm
             ELSE TimedLoop(func, r.val, warm.invoked, timing)

\* benchmark() of benchrun/benchmark.py: no argument is validated; a str or
\* float count fails where it is first compared, divided or given to range()
LoggingOutcome(func, r, w, timing) ==
    IF w.kind = "str" THEN Failed("TypeError", <<>>)
    ELSE IF w.kind = "float" /\ Positive(w) THEN Failed("TypeError", <<>>)
    ELSE LET warm == IF Positive(w) THEN WarmupLoop(func, w.val)
                     ELSE Failed(NoError, <<>>)
         IN  IF warm.error # NoError THEN warm
             ELSE IF r.kind # "int" THEN Failed("TypeError", warm.invoked)
             ELSE TimedLoop(func, r.val, warm.invoked, timing)

SamplerTimings == [1..MaxCount -> Durations]

Called(variant, func, r, w, o) ==
    [variant |-> variant, func |-> func, runs |-> r, warmup |-> w,
     error |-> o.error, invoked |-> o.invoked, clock |-> o.clock,
     returned |-> o.returned, durations |-> o.durations]

BenchmarkCore ==
    \E func \in SamplerFuncs, r \in Counts, w \in Counts :
        \E o \in {CoreOutcome(func, r, w, t) : t \in SamplerTimings} :
            /\ sampler' = Called("core", func, r, w, o)
            /\ UNCHANGED <<runner, observed, lib>>

BenchmarkLogging ==
    \E func \in SamplerFuncs, r \in Counts, w \in Counts :
        \E o \in {LoggingOutcome(func, r, w, t) : t \in SamplerTimings} :
            /\ sampler' = Called("logging", func, r, w, o)
            /\ UNCHANGED <<runner, observed, lib>>

NextSampler ==
    \/ BenchmarkCore
    \/ BenchmarkLogging

SpecSampler == Init /\ [][NextSampler]_vars

\* registration alone: add_implementation and clear
NextNames ==
    \/ Add(MaxNames)
    \/ Clear

SpecNames == Init /\ [][NextNames]_vars

\* ---------------------------------------------- comparison.py, standalone
\* the entries of the Comparison Sets handed to the comparator
MaxEntries == 2

\* the durations of an entry: a zero mean, equal statistics from different
\* lists, and lists that the four metrics order differently
CmpSamples == {<<0>>, <<1>>, <<1, 1>>, <<0, 3>>, <<2, 2>>, <<0, 0, 4>>}

EntryName(i) == <<"f", i>>

\* Dict[str, BenchmarkResults] as built by a caller: the empty dict included
ComparisonSets ==
    {[i \in 1..Len(ds) |-> BenchmarkResults(EntryName(i), ds[i], Len(ds[i]), 0)] :
        ds \in UNION {[1..n -> CmpSamples] : n \in 0..MaxEntries}}

\* the metric arguments: the six names of the comparator and std_dev, a
\* field of the Result Record that is not a metric name
MetricNames ==
    {"mean", "median", "min", "min_time", "max", "max_time", "std_dev"}

\* the two ValueErrors of get_fastest and get_slowest, told apart by message
NoResultsToCompare == "ValueError: No results to compare"
InvalidMetric == "ValueError: Invalid metric"

\* getattr(results[k], metric) for the attributes the comparator reads
Attr(rec, attr) ==
    CASE attr = "mean" -> rec.mean
      [] attr = "median" -> rec.median
      [] attr = "min_time" -> [num |-> rec.min_time, den |-> 1]
      [] attr = "max_time" -> [num |-> rec.max_time, den |-> 1]

\* among keys that tie for the least value the last one is taken
LeastIndexLast(items, attr) ==
    CHOOSE i \in 1..Len(items) :
        /\ \A j \in 1..Len(items) : ~Less(Attr(items[j], attr), Attr(items[i], attr))
        /\ \A j \in (i + 1)..Len(items) : Less(Attr(items[i], attr), Attr(items[j], attr))

\* min(results.keys(), key=...): the first key with the least value
LeastIndex(items, attr) ==
    CHOOSE i \in 1..Len(items) :
        /\ \A j \in 1..Len(items) : ~Less(Attr(items[j], attr), Attr(items[i], attr))
        /\ \A j \in 1..(i - 1) : Less(Attr(items[i], attr), Attr(items[j], attr))

\* max() is replaced by min()
GreatestIndexIsLeast(items, attr) == LeastIndex(items, attr)

\* max(results.keys(), key=...): the first key with the greatest value
GreatestIndex(items, attr) ==
    CHOOSE i \in 1..Len(items) :
        /\ \A j \in 1..Len(items) : ~Less(Attr(items[i], attr), Attr(items[j], attr))
        /\ \A j \in 1..(i - 1) : Less(Attr(items[j], attr), Attr(items[i], attr))

\* get_fastest takes every one of the six metric names
FastestMetricsAll == {"mean", "median", "min", "min_time", "max", "max_time"}

\* valid_metrics of get_fastest
FastestMetrics == {"mean", "median", "min", "min_time"}

\* valid_metrics of get_slowest
SlowestMetrics == {"mean", "median", "max", "max_time"}

\* the outcome of get_fastest(results, metric): the error raised, else the
\* name returned
get_fastest(items, metric) ==
    IF items = <<>> THEN [error |-> NoResultsToCompare, name |-> NoName]
    ELSE IF metric \notin FastestMetrics THEN [error |-> InvalidMetric, name |-> NoName]
    ELSE LET attr == IF metric = "min" THEN "min_time" ELSE metric
         IN  [error |-> NoError, name |-> items[LeastIndex(items, attr)].name]

get_slowest(items, metric) ==
    IF items = <<>> THEN [error |-> NoResultsToCompare, name |-> NoName]
    ELSE IF metric \notin SlowestMetrics THEN [error |-> InvalidMetric, name |-> NoName]
    ELSE LET attr == IF metric = "max" THEN "max_time" ELSE metric
         IN  [error |-> NoError, name |-> items[GreatestIndex(items, attr)].name]

\* a call that reads the Comparison Set and returns a name or raises
Queried(fn, items, metric, o) ==
    IF o.error = NoError
    THEN Returned(fn, [results |-> items, metric |-> metric], o.name)
    ELSE Raised(fn, [results |-> items, metric |-> metric], o.error)

\* the call is still to be made and has this argument
Has(field) == lib.fn = "none" /\ field \in DOMAIN lib.args

GetFastest ==
    /\ Has("results")
    /\ \E metric \in MetricNames :
          lib' = Queried("get_fastest", lib.args.results, metric,
                         get_fastest(lib.args.results, metric))
    /\ UNCHANGED <<runner, observed, sampler>>

GetSlowest ==
    /\ Has("results")
    /\ \E metric \in MetricNames :
          lib' = Queried("get_slowest", lib.args.results, metric,
                         get_slowest(lib.args.results, metric))
    /\ UNCHANGED <<runner, observed, sampler>>

CalculateComparisons ==
    /\ Has("results")
    /\ lib' = Returned("calculate_comparisons",
                       [results |-> calculate_comparisons(lib.args.results)], <<>>)
    /\ UNCHANGED <<runner, observed, sampler>>

NextCompare ==
    \/ CalculateComparisons
    \/ GetFastest
    \/ GetSlowest

InitCompare ==
    /\ Constructed /\ runs = 0 /\ warmup = 0
    /\ lib \in {Pending([results |-> rs]) : rs \in ComparisonSets}

SpecCompare == InitCompare /\ [][NextCompare]_vars

\* ------------------------------------------------- results.py, standalone
\* the longest Sample Set and the largest duration, in ticks, given to
\* BenchmarkResults and to _percentile
MaxSamples == 3
MaxTick == 2

\* the durations argument: every list up to MaxSamples, the empty one too
SampleLists == UNION {[1..n -> 0..MaxTick] : n \in 0..MaxSamples}

\* the percentile argument
Percentiles == 0..100

\* time_value is in seconds; here it is a whole number of nanoseconds
Second == 1000000000
Millisecond == 1000000
Microsecond == 1000

\* how far around a threshold the time values are taken
Window == 10

\* the time_value argument: from 0, around the three thresholds, and values
\* that lie halfway between two numbers that can be displayed
TimeValues ==
    (0..Window)
    \cup ((Microsecond - Window)..(Microsecond + Window))
    \cup ((Millisecond - Window)..(Millisecond + Window))
    \cup ((Second - Window)..(Second + Window))
    \cup {1500500, 2000000500}

\* n / q to the nearest whole number; a value halfway between two is
\* rounded by its binary expansion, which the ticks do not tell: both
Rounded(n, q) ==
    IF 2 * (n % q) < q THEN {n \div q}
    ELSE IF 2 * (n % q) > q THEN {n \div q + 1}
    ELSE {n \div q, n \div q + 1}

Shown(unit, decimals, digits) ==
    [unit |-> unit, decimals |-> decimals, digits |-> digits]

\* the thresholds are compared with > instead of >=
FormatTimeStrict(time_value) ==
    IF time_value > Second
    THEN {Shown("s", 6, n) : n \in Rounded(time_value, 1000)}
    ELSE IF time_value > Millisecond
    THEN {Shown("ms", 3, n) : n \in Rounded(time_value, 1000)}
    ELSE IF time_value > Microsecond
    THEN {Shown("us", 3, time_value)}
    ELSE {Shown("ns", 3, time_value * 1000)}

\* BenchmarkResults.format_time: the strings it can return, each as the
\* unit, the decimals and the digits printed (1234567 ns is 1.235 ms: unit
\* ms, 3 decimals, digits 1235)
format_time(time_value) ==
    IF time_value >= Second
    THEN {Shown("s", 6, n) : n \in Rounded(time_value, 1000)}
    ELSE IF time_value >= Millisecond
    THEN {Shown("ms", 3, n) : n \in Rounded(time_value, 1000)}
    ELSE IF time_value >= Microsecond
    THEN {Shown("us", 3, time_value)}
    ELSE {Shown("ns", 3, time_value * 1000)}

\* BenchmarkResults(name, durations, runs, warmup)
Construct ==
    /\ Has("durations")
    /\ LET o == PostInit(EntryName(1), lib.args.durations,
                         Len(lib.args.durations), 0)
       IN  lib' = IF o.built THEN Returned("BenchmarkResults", lib.args, o.record)
                  ELSE Raised("BenchmarkResults", lib.args, o.error)
    /\ UNCHANGED <<runner, observed, sampler>>

\* BenchmarkResults._percentile(sorted_data, percentile)
PercentileCall ==
    /\ Has("sorted_data")
    /\ \E percentile \in Percentiles :
          lib' = Returned("_percentile",
                          [sorted_data |-> lib.args.sorted_data,
                           percentile |-> percentile],
                          Percentile(lib.args.sorted_data, percentile))
    /\ UNCHANGED <<runner, observed, sampler>>

\* result.format_time(time_value)
FormatTime ==
    /\ Has("time_value")
    /\ \E o \in format_time(lib.args.time_value) :
          lib' = Returned("format_time", lib.args, o)
    /\ UNCHANGED <<runner, observed, sampler>>

NextResults ==
    \/ Construct
    \/ PercentileCall
    \/ FormatTime

InitResults ==
    /\ Constructed /\ runs = 0 /\ warmup = 0
    /\ lib \in {Pending([durations |-> d]) : d \in SampleLists}
               \cup {Pending([sorted_data |-> Sorted(d)]) : d \in SampleLists}
               \cup {Pending([time_value |-> v]) : v \in TimeValues}

SpecResults == InitResults /\ [][NextResults]_vars

\* ------------------------------------------------- display.py, standalone
\* the widest bar asked of create_bar_chart
MaxWidth == 3

\* three implementations with means of 2, 4 and 1 ticks, annotated
Scenario ==
    calculate_comparisons(
        <<BenchmarkResults(EntryName(1), <<2>>, 1, 0),
          BenchmarkResults(EntryName(2), <<4>>, 1, 0),
          BenchmarkResults(EntryName(3), <<1>>, 1, 0)>>)

\* f"{x:.2f}": the hundredths that can be printed for x
TwoDecimals(x) == Rounded(x.num * 100, x.den)

\* the Comparison Sets handed to the formatters: as constructed, after
\* calculate_comparisons has set speedup and relative_performance, and the
\* scenario
DisplaySets ==
    ComparisonSets \cup {calculate_comparisons(rs) : rs \in ComparisonSets}
    \cup {Scenario}

\* a line of format_results_table or create_bar_chart: what it is, the entry
\* it belongs to, and the value it shows
Text(kind, name, value) == [kind |-> kind, name |-> name, value |-> value]

NoResultsText == Text("message", <<"No results to display.">>, Unset)

\* the lines format_results_table appends for one entry; "if result.speedup"
\* leaves the Speedup line out for None and for 0.0
ResultBlock(rec) ==
    <<Text("blank", NoName, Unset),
      Text("heading", rec.name, Unset),
      Text("Mean", rec.name, rec.mean),
      Text("Median", rec.name, rec.median),
      Text("Std", rec.name, rec.std_dev),
      Text("Min", rec.name, rec.min_time),
      Text("Max", rec.name, rec.max_time)>>
    \o (IF rec.speedup.set /\ rec.speedup.num # 0
        THEN <<Text("Speedup", rec.name, rec.speedup)>>
        ELSE <<>>)

RECURSIVE ResultBlocks(_)
ResultBlocks(s) ==
    IF s = <<>> THEN <<>> ELSE ResultBlock(Head(s)) \o ResultBlocks(Tail(s))

TableHeader ==
    <<Text("blank", NoName, Unset),
      Text("title", <<"Benchmark Results">>, Unset),
      Text("rule", NoName, Unset)>>

\* the entries are sorted by mean whatever sort_by is
FormatResultsTableByMean(items, sort_by) ==
    [results |-> items,
     out |-> IF items = <<>> THEN <<NoResultsText>>
             ELSE TableHeader \o ResultBlocks(SortedItems(items, "mean"))]

\* format_results_table(results, sort_by): the dict as the call leaves it
\* and the list of lines returned
format_results_table(items, sort_by) ==
    [results |-> items,
     out |-> IF items = <<>> THEN <<NoResultsText>>
             ELSE TableHeader \o ResultBlocks(SortedItems(items, sort_by))]

\* print_comparison(results, sort_by) of display.py: the dict as the call
\* leaves it, the lines printed and the error that ends the call
print_comparison(items, sort_by) ==
    [results |-> items,
     error |-> PrintOutput(items, sort_by).error,
     out |-> PrintOutput(items, sort_by).lines]

\* a line of the chart: the name, the number of blocks, the value shown
Bar(name, length, value) ==
    [kind |-> "bar", name |-> name, length |-> length, value |-> value]

\* the quotient is rounded up
BarLengthRoundsUp(value, max_value, width) ==
    (value.num * max_value.den * width + value.den * max_value.num - 1)
        \div (value.den * max_value.num)

\* int((value / max_value) * width), exactly
BarLength(value, max_value, width) ==
    (value.num * max_value.den * width) \div (value.den * max_value.num)

\* the lines of the chart for a non-empty dict: values is the list of
\* (name, value) sorted by value, the greatest value last
ChartLines(values, metric, width) ==
    LET max_value == Metric(values[Len(values)], metric)
        attr == CASE metric = "min" -> "min_time"
                  [] metric = "max" -> "max_time"
                  [] OTHER -> metric
    IN  IF max_value.num = 0
        THEN <<Text("message", <<"All values are zero.">>, Unset)>>
        ELSE <<Text("blank", NoName, Unset),
               Text("title", <<"Bar Chart", attr>>, Unset),
               Text("rule", NoName, width + 30),
               Text("blank", NoName, Unset)>>
             \o [i \in 1..Len(values) |->
                    Bar(values[i].name,
                        BarLength(Metric(values[i], metric), max_value, width),
                        Metric(values[i], metric))]
             \o <<Text("blank", NoName, Unset)>>

\* the dict itself is put in the order of the bars
CreateBarChartSortsResults(items, metric, width) ==
    [results |-> SortedItems(items, metric),
     out |-> IF items = <<>> THEN <<NoResultsText>>
             ELSE ChartLines(SortedItems(items, metric), metric, width)]

\* create_bar_chart(results, metric, width): the dict as the call leaves it
\* and the lines of the string returned
create_bar_chart(items, metric, width) ==
    [results |-> items,
     out |-> IF items = <<>> THEN <<NoResultsText>>
             ELSE ChartLines(SortedItems(items, metric), metric, width)]

DisplayPrintComparison ==
    /\ Has("results")
    /\ \E sort_by \in SortKeys :
          LET o == print_comparison(lib.args.results, sort_by)
              args == [results |-> o.results, sort_by |-> sort_by]
          IN  lib' = [fn |-> "print_comparison", args |-> args,
                      error |-> o.error, out |-> o.out]
    /\ UNCHANGED <<runner, observed, sampler>>

FormatResultsTable ==
    /\ Has("results")
    /\ \E sort_by \in SortKeys :
          LET o == format_results_table(lib.args.results, sort_by)
          IN  lib' = Returned("format_results_table",
                              [results |-> o.results, sort_by |-> sort_by], o.out)
    /\ UNCHANGED <<runner, observed, sampler>>

CreateBarChart ==
    /\ Has("results")
    /\ \E metric \in SortKeys, width \in 1..MaxWidth :
          LET o == create_bar_chart(lib.args.results, metric, width)
          IN  lib' = Returned("create_bar_chart",
                              [results |-> o.results, metric |-> metric,
                               width |-> width], o.out)
    /\ UNCHANGED <<runner, observed, sampler>>

NextDisplay ==
    \/ DisplayPrintComparison
    \/ FormatResultsTable
    \/ CreateBarChart

InitDisplay ==
    /\ Constructed /\ runs = 0 /\ warmup = 0
    /\ lib \in {Pending([results |-> rs]) : rs \in DisplaySets}

SpecDisplay == InitDisplay /\ [][NextDisplay]_vars

\* ============================================================ properties
IsRun == op = "run"
Succeeded == op = "run" /\ error = NoError
Names_(items) == [i \in 1..Len(items) |-> items[i].name]

\* C1: when run() completes with at least one registered implementation,
\* self.results (what run() and get_results() return) holds exactly one
\* Result Record per registered name, keyed by it, in registration order,
\* each with the runner's runs and warmup and exactly `runs` durations.
C1_RunBuildsOneRecordPerName ==
    Succeeded =>
        /\ ~get_results.isNone
        /\ Names_(get_results.items) = Names_(implementations)
        /\ \A i \in 1..Len(get_results.items) :
               /\ get_results.items[i].runs = runs
               /\ get_results.items[i].warmup = warmup
               /\ Len(get_results.items[i].durations) = runs

C1_Witness ==
    /\ Succeeded
    /\ Len(implementations) >= 2
    /\ warmup >= 1

\* C2: in a run() that completes, every registered callable is invoked
\* exactly warmup + runs times, first `warmup` times untimed and then `runs`
\* times timed, and the invocations of one implementation all come before
\* those of the next one in registration order.
C2_InvocationOrder ==
    Succeeded =>
        LET b == warmup + runs
            n == Len(implementations)
        IN  /\ Len(calls) = n * b + 1
            /\ \A p \in 1..(n * b) :
                   /\ calls[p].name = implementations[(p - 1) \div b + 1].name
                   /\ calls[p].kind = IF (p - 1) % b < warmup THEN "warmup"
                                      ELSE "timed"
            /\ \A i \in 1..n :
                   Cardinality({p \in 1..Len(calls) :
                       calls[p].name = implementations[i].name}) = b

C2_Witness ==
    /\ Succeeded
    /\ Len(implementations) >= 2
    /\ warmup >= 1 /\ runs >= 1
    /\ Len(calls) > 2 * (warmup + runs)

\* C3: run() with no implementation registered fails with ValueError,
\* invokes nothing and leaves registrations, results and the name counter
\* as they were.
C3_RunWhileEmptyFails ==
    [][(implementations = <<>> /\ op' = "run")
        => /\ error' = "ValueError"
           /\ calls' = <<>>
           /\ UNCHANGED <<implementations, results, impl_counter>>]_vars

C3_Witness ==
    /\ IsRun /\ error = "ValueError" /\ entered = "Empty"
    /\ implementations = <<>> /\ results.isNone /\ calls = <<>>

\* C4: as long as run() has not been called since construction or the last
\* clear(), get_results() returns None and print_comparison() fails with
\* NotExecuted for every sort key and prints nothing; once a run() has
\* succeeded, print_comparison() does not fail with NotExecuted.
C4_NotExecutedBeforeRun ==
    /\ ~ran =>
          /\ get_results = NoneResults
          /\ \A sort_by \in SortKeys :
                 PrintError(sort_by) = "NotExecuted" /\ Printed(sort_by) = <<>>
    /\ (op = "print_comparison" /\ ~ran) => error = "NotExecuted"
    /\ Succeeded => \A sort_by \in SortKeys : PrintError(sort_by) # "NotExecuted"
    /\ (op = "print_comparison" /\ ~results.isNone) => error # "NotExecuted"

C4_Witness ==
    /\ op = "print_comparison" /\ error = "NotExecuted"
    /\ ~ran
    /\ implementations # <<>>

\* C5: right after clear() the runner is as freshly constructed: no
\* registrations, results None, name counter 0, so that an unnamed lambda
\* added next is registered as impl_1 and a run() called next fails as on
\* an empty runner.
Fresh ==
    /\ implementations = <<>>
    /\ results = NoneResults
    /\ impl_counter = 0

C5_ClearResets ==
    /\ [](op = "clear" => Fresh)
    /\ [][(op = "clear" /\ op' = "run")
           => (error' = "ValueError" /\ calls' = <<>> /\ UNCHANGED runner)]_vars
    /\ [][(op = "clear" /\ op' = "add_implementation"
                /\ arg'.name = NoName /\ arg'.func.fname = Lambda)
           => implementations' = <<[name |-> <<"impl", 1>>, func |-> arg'.func]>>]_vars

\* clear() was called on a runner with results
C5_Witness ==
    /\ op = "clear" /\ entered = "Executed"
    /\ Fresh

\* C6: every add_implementation call appends exactly one registration and
\* changes no earlier one; the name stored is the requested name n when n is
\* free, else n_k for the least k >= 1 with n_k not registered; the name
\* stored was not registered before.
AddStep == op' = "add_implementation" /\ vars' # vars

AddedOne ==
    LET n == arg'.original
        keys == Keys(implementations)
        last == implementations'[Len(implementations')]
    IN  /\ Len(implementations') = Len(implementations) + 1
        /\ SubSeq(implementations', 1, Len(implementations)) = implementations
        /\ last.func = arg'.func
        /\ last.name \notin keys
        /\ arg'.name # NoName => n = arg'.name
        /\ n \notin keys => last.name = n
        /\ n \in keys =>
              \E c \in 1..(Len(implementations) + 1) :
                  /\ last.name = Append(n, c)
                  /\ \A j \in 1..(c - 1) : Append(n, j) \in keys

C6_AddAppendsUniqueName == [][AddStep => AddedOne]_vars

\* impl_1 was synthesized for a lambda, then "impl" was requested twice
C6_Witness ==
    /\ op = "add_implementation"
    /\ arg.name = ImplName
    /\ Len(implementations) = 3
    /\ implementations[1].name = <<"impl", 1>>
    /\ implementations[1].func.fname = Lambda
    /\ implementations[3].name = <<"impl", 2>>

\* C7: the second of two registrations on an empty runner
SecondAdd ==
    /\ op = "add_implementation" /\ entered = "Empty" /\ Len(implementations) = 1
    /\ op' = "add_implementation" /\ Len(implementations') = 2

BothNamedImpl == arg.name = ImplName /\ arg'.name = ImplName

BothUnnamedLambdas ==
    /\ arg.name = NoName /\ arg.func.fname = Lambda
    /\ arg'.name = NoName /\ arg'.func.fname = Lambda

\* C7 as stated: in both cases the first registration keeps its name and
\* the second is stored as impl_1.
C7_Original ==
    [][(SecondAdd /\ (BothNamedImpl \/ BothUnnamedLambdas))
        => /\ implementations'[1] = implementations[1]
           /\ implementations'[2].name = <<"impl", 1>>]_vars

\* C7 (amended): two registrations on an empty runner both under the name
\* "impl" are stored as impl and impl_1; two unnamed lambdas are stored as
\* impl_1 and impl_2; the first registration is not changed by the second.
C7_SecondRegistration ==
    [][SecondAdd =>
        /\ (BothNamedImpl \/ BothUnnamedLambdas)
              => implementations'[1] = implementations[1]
        /\ BothNamedImpl
              => Names_(implementations') = <<ImplName, <<"impl", 1>>>>
        /\ BothUnnamedLambdas
              => Names_(implementations') = <<(<<"impl", 1>>), <<"impl", 2>>>>]_vars

C7_Witness ==
    /\ op = "add_implementation"
    /\ arg.name = NoName /\ arg.func.fname = Lambda
    /\ Names_(implementations) = <<(<<"impl", 1>>), <<"impl", 2>>>>

\* C8 as stated: a run() that fails leaves get_results() returning what it
\* returned before the call.
C8_Original ==
    [][(op' = "run" /\ error' # NoError) => get_results' = get_results]_vars

\* C9: after a run() that completes, every record has speedup and
\* relative_performance set, and the Comparator was invoked exactly once,
\* after the last timed invocation; a run() that ends before all Result
\* Records exist has not invoked the Comparator and leaves every record it
\* built without speedup and relative_performance.
Compared == {p \in 1..Len(calls) : calls[p].kind = "compare"}

C9_AnnotatedOnceAtTheEnd ==
    /\ Succeeded =>
          /\ \A i \in 1..Len(results.items) :
                 /\ results.items[i].speedup.set
                 /\ results.items[i].relative_performance.set
          /\ Compared = {Len(calls)}
    /\ (IsRun /\ error # NoError) =>
          /\ Compared = {}
          /\ ~results.isNone =>
                 \A i \in 1..Len(results.items) :
                     /\ ~results.items[i].speedup.set
                     /\ ~results.items[i].relative_performance.set

C9_Witness ==
    /\ Succeeded
    /\ Len(results.items) >= 2
    /\ \E i, j \in 1..Len(results.items) :
           /\ results.items[i].mean.num = 0
           /\ results.items[j].mean.num > 0
    /\ calls[Len(calls) - 1].kind = "timed"

\* C10 as stated: benchmark() rejects a non-callable func with TypeError and
\* runs < 1, warmup < 0 or a non-integer count with ValueError, before func
\* is invoked and without returning durations.
BadCount(r, w) ==
    \/ r.kind # "int" \/ r.val < 1
    \/ w.kind # "int" \/ w.val < 0

Rejected(kind) ==
    /\ sampler.error = kind
    /\ sampler.invoked = <<>>
    /\ ~sampler.returned

C10_Original ==
    sampler.variant # "none" =>
        /\ ~sampler.func.callable => Rejected("TypeError")
        /\ (sampler.func.callable /\ BadCount(sampler.runs, sampler.warmup))
              => Rejected("ValueError")

\* the same for the benchmark() of src/benchrun/core.py alone
C10_CoreValidates ==
    sampler.variant = "core" =>
        /\ ~sampler.func.callable => Rejected("TypeError")
        /\ (sampler.func.callable /\ BadCount(sampler.runs, sampler.warmup))
              => Rejected("ValueError")

\* a call of benchmark() with runs >= 1, warmup >= 0 and a func that returns
ValidCall ==
    /\ sampler.variant # "none"
    /\ sampler.func.callable /\ ~sampler.func.raises
    /\ sampler.runs.kind = "int" /\ sampler.runs.val >= 1
    /\ sampler.warmup.kind = "int" /\ sampler.warmup.val >= 0

\* C11: for runs >= 1 and warmup >= 0, benchmark() calls func warmup + runs
\* times, the warmup calls first, and returns exactly `runs` durations, the
\* j-th being the one measured around the j-th timed call, none negative;
\* the length of the list is runs whatever warmup is
C11_RunsDurationsInOrder ==
    ValidCall =>
        /\ sampler.error = NoError /\ sampler.returned
        /\ Len(sampler.invoked) = sampler.warmup.val + sampler.runs.val
        /\ sampler.invoked = Kinds("warmup", sampler.warmup.val)
                                \o Kinds("timed", sampler.runs.val)
        /\ Len(sampler.durations) = sampler.runs.val
        /\ sampler.durations = sampler.clock
        /\ \A j \in 1..Len(sampler.durations) : sampler.durations[j] >= 0

C11_Witness ==
    /\ ValidCall /\ sampler.variant = "core"
    /\ sampler.warmup.val = 1 /\ sampler.runs.val = 2
    /\ sampler.durations = <<0, 1>>

FracEq(a, b) == a.num * b.den = b.num * a.den
Times100(a) == [num |-> a.num * 100, den |-> a.den]
One == [num |-> 1, den |-> 1]

\* the least mean of a non-empty Comparison Set
LeastMean(items) ==
    LET means == {items[i].mean : i \in 1..Len(items)}
    IN  CHOOSE m \in means : \A x \in means : ~Less(x, m)

\* C12: after calculate_comparisons on a non-empty Comparison Set every
\* entry has speedup = fastest_mean / entry_mean, or 1.0 when its mean is 0,
\* and relative_performance = speedup * 100; the entries with the least mean
\* have speedup 1.0 and relative_performance 100.0, and no speedup exceeds 1.0
C12_SpeedupRelativeToFastest ==
    (lib.fn = "calculate_comparisons" /\ lib.args.results # <<>>) =>
        LET rs == lib.args.results
            fastest_mean == LeastMean(rs)
        IN  \A i \in 1..Len(rs) :
                /\ rs[i].speedup.set /\ rs[i].relative_performance.set
                /\ IF rs[i].mean.num = 0
                   THEN FracEq(rs[i].speedup, One)
                   ELSE rs[i].speedup.num * rs[i].mean.num * fastest_mean.den
                        = fastest_mean.num * rs[i].mean.den * rs[i].speedup.den
                /\ FracEq(rs[i].relative_performance, Times100(rs[i].speedup))
                /\ FracEq(rs[i].mean, fastest_mean)
                      => /\ FracEq(rs[i].speedup, One)
                         /\ FracEq(rs[i].relative_performance, Times100(One))
                /\ ~Less(One, rs[i].speedup)

\* a slower entry registered before the fastest one, whose mean is not 0
C12_Witness ==
    /\ lib.fn = "calculate_comparisons" /\ Len(lib.args.results) = 2
    /\ lib.args.results[2].mean.num > 0
    /\ Less(lib.args.results[2].mean, lib.args.results[1].mean)
    /\ Less(lib.args.results[1].speedup, One)

SixMetrics == {"mean", "median", "min", "min_time", "max", "max_time"}

\* the field a metric name stands for
MetricAttr(metric) ==
    CASE metric \in {"min", "min_time"} -> "min_time"
      [] metric \in {"max", "max_time"} -> "max_time"
      [] OTHER -> metric

\* name is a key of rs whose value is <= (get_fastest) or >= (get_slowest)
\* that of every entry
Extremal(fn, rs, metric, name) ==
    \E i \in 1..Len(rs) :
        /\ rs[i].name = name
        /\ \A j \in 1..Len(rs) :
              IF fn = "get_fastest"
              THEN ~Less(Attr(rs[j], MetricAttr(metric)), Attr(rs[i], MetricAttr(metric)))
              ELSE ~Less(Attr(rs[i], MetricAttr(metric)), Attr(rs[j], MetricAttr(metric)))

QueryStep == lib.fn = "none" /\ lib'.fn \in {"get_fastest", "get_slowest"}

\* the call raised kind, returned no name and left the Comparison Set alone
QueryFailed(kind) ==
    /\ lib'.error = kind /\ lib'.out = NoName
    /\ lib'.args.results = lib.args.results

\* C13: get_fastest and get_slowest raise "No results to compare" on an
\* empty Comparison Set and "Invalid metric" on a name that is not a metric
\* name, in both cases returning no name and leaving the set unchanged; on a
\* non-empty set a metric name either is rejected in the same way or yields
\* the name of a key whose value is <= (fastest) or >= (slowest) that of every
\* entry, and the names the operation lists as valid always yield a name
C13_QueryErrorsAndExtremum ==
    [][QueryStep =>
        LET rs == lib.args.results
            fn == lib'.fn
            metric == lib'.args.metric
        IN  /\ rs = <<>> => QueryFailed(NoResultsToCompare)
            /\ (rs # <<>> /\ metric \notin SixMetrics) => QueryFailed(InvalidMetric)
            /\ (rs # <<>> /\ metric \in SixMetrics) =>
                  \/ QueryFailed(InvalidMetric)
                  \/ lib'.error = NoError /\ Extremal(fn, rs, metric, lib'.out)
            /\ (rs # <<>> /\ metric \in {"mean", "median"}
                           \cup (IF fn = "get_fastest" THEN {"min", "min_time"}
                                                       ELSE {"max", "max_time"}))
                  => lib'.error = NoError
    ]_vars

\* get_slowest by max picks the second of two entries
C13_Witness ==
    /\ lib.fn = "get_slowest" /\ lib.error = NoError /\ lib.args.metric = "max"
    /\ Len(lib.args.results) = 2
    /\ lib.args.results[1].max_time < lib.args.results[2].max_time
    /\ lib.out = lib.args.results[2].name

Queried_ == lib.fn \in {"get_fastest", "get_slowest"} /\ lib.args.results # <<>>

\* C14 as stated: on a non-empty set both get_fastest and get_slowest take
\* each of mean, median, min, min_time, max and max_time and return the
\* name of the extremum by that metric
C14_Original ==
    (Queried_ /\ lib.args.metric \in SixMetrics) =>
        /\ lib.error = NoError
        /\ Extremal(lib.fn, lib.args.results, lib.args.metric, lib.out)

\* C14, amended: on a non-empty set get_fastest takes mean, median, min and
\* min_time and rejects max and max_time with "Invalid metric"; get_slowest
\* takes mean, median, max and max_time and rejects min and min_time; a name
\* that is taken is compared by (min and max standing for min_time, max_time)
C14_EachRejectsTheOthersMetric ==
    (Queried_ /\ lib.args.metric \in SixMetrics) =>
        LET own == {"mean", "median"}
                   \cup (IF lib.fn = "get_fastest" THEN {"min", "min_time"}
                                                   ELSE {"max", "max_time"})
        IN  IF lib.args.metric \in own
            THEN /\ lib.error = NoError
                 /\ Extremal(lib.fn, lib.args.results, lib.args.metric, lib.out)
            ELSE lib.error = InvalidMetric /\ lib.out = NoName

C14_Witness ==
    /\ Queried_ /\ lib.fn = "get_fastest" /\ lib.args.metric = "max"
    /\ lib.error = InvalidMetric

LessEq(a, b) == ~Less(b, a)
Whole(n) == [num |-> n, den |-> 1]
Built == lib.fn = "BenchmarkResults" /\ lib.error = NoError

\* C15: the Result Record of a non-empty Sample Set has min_time and
\* max_time equal to the smallest and the largest sample, and both the mean
\* and the median lie between them
C15_MeanAndMedianWithinRange ==
    Built =>
        LET d == lib.args.durations
            rec == lib.out
        IN  /\ \E i \in 1..Len(d) : d[i] = rec.min_time
            /\ \E i \in 1..Len(d) : d[i] = rec.max_time
            /\ \A i \in 1..Len(d) : rec.min_time <= d[i] /\ d[i] <= rec.max_time
            /\ LessEq(Whole(rec.min_time), rec.median)
            /\ LessEq(rec.median, Whole(rec.max_time))
            /\ LessEq(Whole(rec.min_time), rec.mean)
            /\ LessEq(rec.mean, Whole(rec.max_time))

\* three unsorted samples whose mean lies strictly between the smallest and
\* the largest and differs from the median
C15_Witness ==
    /\ Built /\ lib.args.durations = <<2, 0, 2>>
    /\ Less(Whole(lib.out.min_time), lib.out.mean)
    /\ Less(lib.out.mean, Whole(lib.out.max_time))
    /\ Less(lib.out.mean, lib.out.median)

PercentileOf == lib.fn = "_percentile" /\ lib.args.sorted_data # <<>>

\* C16: on N ascending samples _percentile(p) takes k = (N - 1) p / 100,
\* f = floor(k), c = f + 1, and returns the last sample when c is past the
\* last index, else sorted[f] + (sorted[c] - sorted[f]) (k - f), with 0-based
\* indices; so p = 0 gives the smallest sample, p = 100 the largest, and
\* every 0 <= p <= 100 a value from sorted[f] up to the largest
C16_PercentileInterpolates ==
    PercentileOf =>
        LET sorted == lib.args.sorted_data
            N == Len(sorted)
            p == lib.args.percentile
            f == CHOOSE x \in 0..(N - 1) : 100 * x <= (N - 1) * p
                                            /\ (N - 1) * p < 100 * (x + 1)
            c == f + 1
        IN  /\ IF c > N - 1
               THEN FracEq(lib.out, Whole(sorted[N]))
               ELSE 100 * lib.out.num
                    = lib.out.den * (100 * sorted[f + 1]
                        + (sorted[c + 1] - sorted[f + 1]) * ((N - 1) * p - 100 * f))
            /\ p = 0 => FracEq(lib.out, Whole(MinSeq(sorted)))
            /\ p = 100 => FracEq(lib.out, Whole(MaxSeq(sorted)))
            /\ LessEq(Whole(sorted[f + 1]), lib.out)
            /\ LessEq(lib.out, Whole(MaxSeq(sorted)))

\* an interpolated value: p = 75 on <<0, 2>> is 1.5
C16_Witness ==
    /\ PercentileOf /\ lib.args.sorted_data = <<0, 2>> /\ lib.args.percentile = 75
    /\ FracEq(lib.out, [num |-> 3, den |-> 2])

\* C17: BenchmarkResults on an empty list of durations raises ValueError
\* ("durations list cannot be empty") and gives no record; on a non-empty
\* list it gives the record of that list, whose std_dev is 0 when the list
\* has one sample
C17_EmptyDurationsRejected ==
    lib.fn = "BenchmarkResults" =>
        IF lib.args.durations = <<>>
        THEN lib.error = EmptyDurations /\ lib.out = <<>>
        ELSE /\ lib.error = NoError
             /\ lib.out.durations = lib.args.durations
             /\ Len(lib.args.durations) = 1 => lib.out.std_dev.num = 0

C17_Witness ==
    /\ lib.fn = "BenchmarkResults" /\ lib.args.durations = <<>>
    /\ lib.error = EmptyDurations

\* the unit of the band a time value, in nanoseconds, lies in
Band(v) ==
    CASE v >= Second -> "s"
      [] v < Second /\ v >= Millisecond -> "ms"
      [] v < Millisecond /\ v >= Microsecond -> "us"
      [] v < Microsecond -> "ns"

\* C18: format_time shows a value >= 1 s in seconds with 6 decimals, else a
\* value >= 1 ms in milliseconds, else a value >= 1 us in microseconds, else
\* in nanoseconds, each with 3 decimals; a value has one unit only, 1 s, 1 ms
\* and 1 us are shown in the larger unit, and the digits shown are the value
\* to the nearest last decimal
C18_UnitByThreshold ==
    lib.fn = "format_time" =>
        LET v == lib.args.time_value
            o == lib.out
        IN  /\ v >= 0
            /\ o.unit = Band(v)
            /\ \A other \in format_time(v) : other.unit = o.unit
            /\ o.decimals = (IF o.unit = "s" THEN 6 ELSE 3)
            /\ v = Second => o.unit = "s"
            /\ v = Millisecond => o.unit = "ms"
            /\ v = Microsecond => o.unit = "us"
            /\ o.unit \in {"s", "ms"} =>
                  /\ o.digits * 1000 - v <= 500
                  /\ v - o.digits * 1000 <= 500
            /\ o.unit = "us" => o.digits = v
            /\ o.unit = "ns" => o.digits = v * 1000

\* 0.001 s is shown as 1.000ms
C18_Witness ==
    /\ lib.fn = "format_time" /\ lib.args.time_value = Millisecond
    /\ lib.out = Shown("ms", 3, 1000)

\* the names of the heading lines of a table, in order
RECURSIVE Headings(_)
Headings(lines) ==
    IF lines = <<>> THEN <<>>
    ELSE IF Head(lines).kind = "heading"
    THEN <<Head(lines).name>> \o Headings(Tail(lines))
    ELSE Headings(Tail(lines))

\* the names of the rows print_comparison prints, in order
RECURSIVE Rows(_)
Rows(lines) ==
    IF lines = <<>> THEN <<>>
    ELSE IF Head(lines).kind = "row"
    THEN <<Head(lines).name>> \o Rows(Tail(lines))
    ELSE Rows(Tail(lines))

\* the entry of a Comparison Set with this name
Entry(rs, name) == rs[CHOOSE i \in 1..Len(rs) : rs[i].name = name]

\* C19: the lines of format_results_table hold exactly one heading "<name>:"
\* for every name of the Comparison Set and no other heading; the headings
\* are in ascending order of the sort metric, the order in which
\* print_comparison prints its rows for the same metric
C19_OneHeadingPerEntryInOrder ==
    lib.fn = "format_results_table" =>
        LET rs == lib.args.results
            sort_by == lib.args.sort_by
            h == Headings(lib.out)
        IN  /\ Len(h) = Len(rs)
            /\ \A i \in 1..Len(rs) :
                  Cardinality({j \in 1..Len(h) : h[j] = rs[i].name}) = 1
            /\ \A j \in 1..(Len(h) - 1) :
                  ~Less(Metric(Entry(rs, h[j + 1]), sort_by),
                        Metric(Entry(rs, h[j]), sort_by))
            /\ rs # <<>> => h = Rows(print_comparison(rs, sort_by).out)

\* sorted by max, the second entry comes first although its mean is smaller
C19_Witness ==
    /\ lib.fn = "format_results_table" /\ lib.args.sort_by = "max"
    /\ Len(lib.args.results) = 2
    /\ Less(lib.args.results[1].mean, lib.args.results[2].mean)
    /\ Headings(lib.out) = <<EntryName(2), EntryName(1)>>

Formatters == {"print_comparison", "format_results_table", "create_bar_chart"}

\* C20: print_comparison, format_results_table and create_bar_chart leave
\* the Comparison Set as it was: the same keys in the same order and the
\* same value in every field of every record, speedup and
\* relative_performance included, for every sort key, metric and width
C20_FormattersDoNotMutate ==
    [][(lib.fn = "none" /\ lib'.fn \in Formatters)
          => lib'.args.results = lib.args.results]_vars

\* a chart of an annotated set whose bars are not in insertion order
C20_Witness ==
    /\ lib.fn = "create_bar_chart" /\ Len(lib.args.results) = 2
    /\ lib.args.results[1].speedup.set
    /\ Less(Metric(lib.args.results[2], lib.args.metric),
            Metric(lib.args.results[1], lib.args.metric))
    /\ Len(lib.out) > 1 /\ lib.out[5].name = EntryName(2)

\* the keys of a Comparison Set in order, each with the runs and warmup of
\* its record
Shape(items) ==
    [i \in 1..Len(items) |->
        [name |-> items[i].name, runs |-> items[i].runs, warmup |-> items[i].warmup]]

\* a registered implementation for which run() builds no record: its func
\* raises when invoked, or there is no timed call to take durations from
NotBuilt(impl) == (impl.func.raises /\ (warmup > 0 \/ runs > 0)) \/ runs = 0

\* the registered implementations before the first for which no record is
\* built
BuiltPrefix ==
    LET stop == {i \in 1..Len(implementations) : NotBuilt(implementations[i])}
        n == IF stop = {} THEN Len(implementations)
             ELSE (CHOOSE i \in stop : \A j \in stop : i <= j) - 1
    IN  SubSeq(implementations, 1, n)

\* C21: the keys of the Comparison Set a run() leaves, their order and the
\* runs/warmup of every record are a function of the registered
\* implementations and the runner's runs and warmup alone: they do not depend
\* on the timing values nor on the results of an earlier run(), which the new
\* results replace; whether the run() fails is fixed in the same way
C21_MembershipIndependentOfTiming ==
    IsRun =>
        IF implementations = <<>>
        THEN results.isNone /\ error # NoError
        ELSE /\ ~results.isNone
             /\ Shape(results.items)
                  = [i \in 1..Len(BuiltPrefix) |->
                       [name |-> BuiltPrefix[i].name, runs |-> runs,
                        warmup |-> warmup]]
             /\ (error = NoError) <=> (BuiltPrefix = implementations)

\* a second run() of the same runner, with two implementations
C21_Witness ==
    /\ Succeeded /\ entered = "Executed"
    /\ Len(implementations) = 2
    /\ Shape(results.items)
         = <<[name |-> implementations[1].name, runs |-> runs, warmup |-> warmup],
             [name |-> implementations[2].name, runs |-> runs, warmup |-> warmup]>>

\* the lines of one kind among those printed, in order
RECURSIVE OfKind(_, _)
OfKind(lines, kind) ==
    IF lines = <<>> THEN <<>>
    ELSE IF Head(lines).kind = kind
    THEN <<Head(lines)>> \o OfKind(Tail(lines), kind)
    ELSE OfKind(Tail(lines), kind)

PrintedTable == lib.fn = "print_comparison" /\ lib.args.results # <<>>

\* C22: the table of print_comparison for a non-empty Comparison Set has one
\* row per entry, in ascending order of the sort key, and the fastest marker
\* on the first row and on no other, also when entries tie on the key
C22_RowsAscendingOneMarker ==
    PrintedTable =>
        LET rs == lib.args.results
            sort_by == lib.args.sort_by
            rows == OfKind(lib.out, "row")
        IN  /\ Len(rows) = Len(rs)
            /\ \A i \in 1..Len(rs) :
                  Cardinality({j \in 1..Len(rows) : rows[j].name = rs[i].name}) = 1
            /\ \A j \in 1..(Len(rows) - 1) :
                  ~Less(Metric(Entry(rs, rows[j + 1].name), sort_by),
                        Metric(Entry(rs, rows[j].name), sort_by))
            /\ \A j \in 1..Len(rows) : rows[j].star <=> j = 1

\* two entries that tie on the sort key: the first has the marker alone
C22_Witness ==
    /\ PrintedTable /\ Len(lib.args.results) = 2
    /\ Metric(lib.args.results[1], lib.args.sort_by)
         = Metric(lib.args.results[2], lib.args.sort_by)
    /\ OfKind(lib.out, "row")[1].star /\ ~OfKind(lib.out, "row")[2].star

FirstLeast(rs, attr, i) ==
    /\ \A j \in 1..Len(rs) : ~Less(Attr(rs[j], attr), Attr(rs[i], attr))
    /\ \A j \in 1..(i - 1) : Less(Attr(rs[i], attr), Attr(rs[j], attr))

\* the entries of rs that tie for the least value of attr
Tied(rs, attr) ==
    {i \in 1..Len(rs) :
        \A j \in 1..Len(rs) : ~Less(Attr(rs[j], attr), Attr(rs[i], attr))}

\* C24: the name get_fastest returns is that of the first inserted entry
\* among those with the least value of the metric, and the entry
\* calculate_comparisons takes as fastest is the first inserted one among
\* those with the least mean, the one get_fastest names for "mean"
C24_FirstMinimumWins ==
    /\ (lib.fn = "get_fastest" /\ lib.error = NoError) =>
          \E i \in 1..Len(lib.args.results) :
              /\ lib.args.results[i].name = lib.out
              /\ FirstLeast(lib.args.results, MetricAttr(lib.args.metric), i)
    /\ (lib.fn = "calculate_comparisons" /\ lib.args.results # <<>>) =>
          /\ FirstLeast(lib.args.results, "mean", FastestIndex(lib.args.results))
          /\ get_fastest(lib.args.results, "mean").name
               = lib.args.results[FastestIndex(lib.args.results)].name

C24_Witness ==
    /\ lib.fn = "get_fastest" /\ lib.error = NoError
    /\ Cardinality(Tied(lib.args.results, MetricAttr(lib.args.metric))) > 1
    /\ lib.out = EntryName(1)
    /\ lib.args.results[2].mean = lib.args.results[1].mean

CompareStep == lib.fn = "none" /\ lib'.fn = "calculate_comparisons"

\* C25: calculate_comparisons raises nothing; it leaves an empty Comparison
\* Set empty and in a non-empty one keeps the keys, their order and every
\* field of every record except speedup and relative_performance; a second
\* application changes nothing more
C25_OnlyAnnotationsChange ==
    /\ [][CompareStep =>
            LET before == lib.args.results
                after == lib'.args.results
            IN  /\ lib'.error = NoError
                /\ Len(after) = Len(before)
                /\ \A i \in 1..Len(before) :
                      [after[i] EXCEPT
                          !.speedup = before[i].speedup,
                          !.relative_performance = before[i].relative_performance]
                      = before[i]]_vars
    /\ [](lib.fn = "calculate_comparisons" =>
            calculate_comparisons(lib.args.results) = lib.args.results)

C25_Witness ==
    /\ lib.fn = "calculate_comparisons" /\ lib.error = NoError
    /\ Len(lib.args.results) = 2
    /\ lib.args.results[1].speedup.set
    /\ lib.args.results[1].speedup.num # lib.args.results[1].speedup.den
    /\ lib.args.results[2].speedup = Frac(1, 1)

Charted == lib.fn = "create_bar_chart"

\* n = floor(value / max_value * width), for max_value > 0
IsFloor(n, value, max_value, width) ==
    /\ n * value.den * max_value.num <= value.num * max_value.den * width
    /\ value.num * max_value.den * width < (n + 1) * value.den * max_value.num

\* C26: create_bar_chart returns the no-results message for an empty
\* Comparison Set and the all-zero message when no entry has a positive
\* value; otherwise it has one bar per entry, in ascending order of the
\* metric, each of length floor(value / max_value * width): between 0 and
\* width, exactly width for an entry with the greatest value, and never
\* shorter than the bar of a smaller value
C26_BarsScaledToWidth ==
    Charted =>
        LET rs == lib.args.results
            metric == lib.args.metric
            width == lib.args.width
            bars == OfKind(lib.out, "bar")
            Value(j) == Metric(Entry(rs, bars[j].name), metric)
        IN  IF rs = <<>> THEN lib.out = <<NoResultsText>>
            ELSE IF \A i \in 1..Len(rs) : Metric(rs[i], metric).num = 0
            THEN lib.out = <<Text("message", <<"All values are zero.">>, Unset)>>
            ELSE /\ lib.error = NoError
                 /\ Len(bars) = Len(rs)
                 /\ \A i \in 1..Len(rs) :
                       Cardinality({j \in 1..Len(bars) : bars[j].name = rs[i].name}) = 1
                 /\ \A j \in 1..(Len(bars) - 1) : ~Less(Value(j + 1), Value(j))
                 /\ \A j \in 1..Len(bars) :
                       /\ bars[j].value = Value(j)
                       /\ IsFloor(bars[j].length, Value(j), Value(Len(bars)), width)
                       /\ bars[j].length \in 0..width
                       /\ (\A k \in 1..Len(bars) : ~Less(Value(j), Value(k)))
                             => bars[j].length = width
                       /\ \A k \in 1..Len(bars) :
                             Less(Value(j), Value(k)) => bars[j].length <= bars[k].length

\* a chart in which the shorter bar is rounded down: 3/4 of width 3 is 2
C26_Witness ==
    /\ Charted /\ lib.args.width = 3 /\ Len(lib.args.results) = 2
    /\ Len(OfKind(lib.out, "bar")) = 2
    /\ OfKind(lib.out, "bar")[1].name = EntryName(2)
    /\ OfKind(lib.out, "bar")[1].length = 2
    /\ OfKind(lib.out, "bar")[2].length = 3

\* C27: format_results_table has a "Speedup:" line for exactly the entries
\* whose speedup is set, whatever its value. An entry with a positive mean
\* annotated against a fastest mean of 0 has speedup 0.0, and "if
\* result.speedup" leaves its line out.
C27_Original ==
    (lib.fn = "format_results_table" /\ lib.args.results # <<>>) =>
        \A i \in 1..Len(lib.args.results) :
            LET rec == lib.args.results[i]
                shown == {j \in 1..Len(lib.out) :
                            lib.out[j].kind = "Speedup" /\ lib.out[j].name = rec.name}
            IN  Cardinality(shown) = (IF rec.speedup.set THEN 1 ELSE 0)

\* C28: add_implementation leaves the results as they are, so what
\* get_results() returns after it is what it returned before, without the
\* new name; and whenever results are present each of their keys is a
\* registered name
C28_AddLeavesResults ==
    /\ [][AddStep => (results' = results /\ get_results' = get_results)]_vars
    /\ [](~results.isNone =>
            \A i \in 1..Len(results.items) :
                \E k \in 1..Len(implementations) :
                    implementations[k].name = results.items[i].name)

C28_Witness ==
    /\ op = "add_implementation" /\ entered = "Executed"
    /\ ~results.isNone /\ Len(results.items) = 1
    /\ Len(implementations) = 2
    /\ implementations[2].name # results.items[1].name
    /\ get_results = results

\* the Comparison Set of the call carries the annotations of
\* calculate_comparisons
AnnotatedSet == calculate_comparisons(lib.args.results) = lib.args.results

\* C29: when print_comparison is given a Comparison Set annotated by
\* calculate_comparisons, the row with the fastest marker, which is the entry
\* named in the "Fastest:" line, has speedup 1.0, for each sort key. Sorted
\* by max, an entry with the least maximum but not the least mean comes
\* first and is marked with a speedup below 1.0.
C29_Original ==
    (PrintedTable /\ AnnotatedSet) =>
        LET rs == lib.args.results
            rows == OfKind(lib.out, "row")
        IN  \A j \in 1..Len(rows) :
                (rows[j].star \/ rows[j].name = OfKind(lib.out, "fastest")[1].name)
                    => FracEq(Entry(rs, rows[j].name).speedup, One)

\* C30: print_comparison completes without an error for every non-empty
\* Comparison Set and each sort key, also when means are 0. With more than
\* one entry and a first row whose mean is 0 the summary divides by that
\* mean and the call ends in ZeroDivisionError.
C30_Original ==
    PrintedTable => lib.error = NoError
=============================================================================
